---------------------------- MODULE Spec2Model ----------------------------
(***************************************************************************)
(* Model of linuxdeploy-plugin-qt: main() of src/main.cpp as a sequential  *)
(* state machine, and the helpers of src/util.cpp it relies on.            *)
(*                                                                         *)
(* Strings are sequences of one-character strings so that prefix tests,    *)
(* basename extraction, splitting on a delimiter and the C-string view     *)
(* (truncation at the first NUL byte) are computed, not assumed.           *)
(*                                                                         *)
(* Three specifications share the module:                                  *)
(*   Spec       one run of main()                                          *)
(*   SpecMatch  the matchesQtModule lambda over candidate/module/files     *)
(*   SpecQuery  check_command + queryQmake over every short output text    *)
(***************************************************************************)
EXTENDS Integers, Sequences, FiniteSets, TLC

VARIABLES
    \* ---- one run of main() ----
    pc,                 \* position in main()
    exitCode,           \* -1 while running, then main's return value
    args,               \* the parsed command line (parser state after ParseCLI)
    files,              \* paths that are regular files on disk
    libraryNames,       \* std::set<std::string> libraryNames
    envData,            \* getenv("EXTRA_QT_PLUGINS"): Null or the value
    envTail,            \* bytes in memory behind the value's terminating NUL
    extraPluginsFromEnv,\* std::vector<std::string> extraPluginsFromEnv
    foundQtModules,     \* std::vector<QtModule>, as catalog indices
    extraQtModules,     \* std::vector<QtModule>, as catalog indices
    qmakePath,          \* result of findQmake()
    qmakeVars,          \* result of queryQmake()
    qtPaths,            \* the seven path locals of lines 194-200, Null before
    qtModulesToDeploy,  \* std::vector<QtModule>, as catalog indices
    modIdx,             \* position of the outer loop of lines 229-237
    deployers,          \* deployers of the module being deployed
    depIdx,             \* position of the inner loop of lines 234-236
    \* ---- observable effects of the run ----
    errors,             \* LD_ERROR messages logged, in order
    deploying,          \* module indices logged by "-- Deploying module:"
    executed,           \* deploy() calls made, in order, with their results
    calls,              \* how often each external stage was invoked
    stageOk,            \* result of each late stage, Null before it ran
    \* ---- SpecMatch ----
    mCandidate, mModule, mFiles, mResult,
    \* ---- SpecQuery ----
    qRetcode, qOutBuf, qResult

mainVars == <<pc, exitCode, args, files, libraryNames, envData, envTail,
              extraPluginsFromEnv, foundQtModules, extraQtModules, qmakePath,
              qmakeVars, qtPaths, qtModulesToDeploy, modIdx, deployers, depIdx,
              errors, deploying, executed, calls, stageOk>>
matchVars == <<mCandidate, mModule, mFiles, mResult>>
queryVars == <<qRetcode, qOutBuf, qResult>>
vars == <<mainVars, matchVars, queryVars>>

-----------------------------------------------------------------------------
(* Characters and string literals *)

NUL == "NUL"
LF == "\n"

Str_sqlite == <<"s", "q", "l", "i", "t", "e">>
Str_webengine == <<"w", "e", "b", "e", "n", "g", "i", "n", "e">>
Str_webenginecore == <<"w", "e", "b", "e", "n", "g", "i", "n", "e", "c", "o", "r", "e">>
Str_widgets == <<"w", "i", "d", "g", "e", "t", "s">>
Str_libQt5Sql == <<"l", "i", "b", "Q", "t", "5", "S", "q", "l">>
Str_libQt5WebEngine == <<"l", "i", "b", "Q", "t", "5", "W", "e", "b", "E", "n", "g", "i", "n", "e">>
Str_libQt5WebEngineCore == <<"l", "i", "b", "Q", "t", "5", "W", "e", "b", "E", "n", "g", "i", "n", "e", "C", "o", "r", "e">>
Str_libQt5Widgets == <<"l", "i", "b", "Q", "t", "5", "W", "i", "d", "g", "e", "t", "s">>
Lib_Sql == <<"l", "i", "b", "Q", "t", "5", "S", "q", "l", ".", "s", "o", ".", "5">>
Lib_WebEngine == <<"l", "i", "b", "Q", "t", "5", "W", "e", "b", "E", "n", "g", "i", "n", "e", ".", "s", "o", ".", "5">>
Lib_WebEngineCore == <<"l", "i", "b", "Q", "t", "5", "W", "e", "b", "E", "n", "g", "i", "n", "e", "C", "o", "r", "e", ".", "s", "o", ".", "5">>
Lib_Widgets == <<"l", "i", "b", "Q", "t", "5", "W", "i", "d", "g", "e", "t", "s", ".", "s", "o", ".", "5">>
Lib_Core == <<"l", "i", "b", "Q", "t", "5", "C", "o", "r", "e", ".", "s", "o", ".", "5">>
Path_Widgets == <<"/", "u", "s", "r", "/", "l", "i", "b", "/", "l", "i", "b", "Q", "t", "5", "W", "i", "d", "g", "e", "t", "s", ".", "s", "o", ".", "5">>
Path_NamedWidgets == <<"p", "l", "u", "g", "i", "n", "s", "/", "w", "i", "d", "g", "e", "t", "s">>
Str_NoDot == <<"l", "i", "b", "Q", "t", "5", "W", "e", "b", "E", "n", "g", "i", "n", "e", "C", "o", "r", "e">>
Str_PrefixDot == <<"l", "i", "b", "Q", "t", "5", "W", "i", "d", "g", "e", "t", "s", ".">>
Str_widgetsX == <<"w", "i", "d", "g", "e", "t", "s", "X">>
Str_libQt5 == <<"l", "i", "b", "Q", "t", "5">>
Env_Semicolon == <<"s", "q", "l", "i", "t", "e", ";", "w", "e", "b", "e", "n", "g", "i", "n", "e", "c", "o", "r", "e">>
Env_Space == <<"s", "q", "l", "i", "t", "e", " ", "w", "e", "b", "e", "n", "g", "i", "n", "e", "c", "o", "r", "e">>
Tail_NextVar == <<"H", "O", "M", "E", "=", "/", "r", "o", "o", "t", NUL>>
Tail_Spaced == <<"X", "=", "a", " ", "w", "i", "d", "g", "e", "t", "s", " ", "b", NUL>>
QT_INSTALL_PLUGINS == <<"Q", "T", "_", "I", "N", "S", "T", "A", "L", "L", "_", "P", "L", "U", "G", "I", "N", "S">>
QT_INSTALL_LIBEXECS == <<"Q", "T", "_", "I", "N", "S", "T", "A", "L", "L", "_", "L", "I", "B", "E", "X", "E", "C", "S">>
QT_INSTALL_DATA == <<"Q", "T", "_", "I", "N", "S", "T", "A", "L", "L", "_", "D", "A", "T", "A">>
QT_INSTALL_TRANSLATIONS == <<"Q", "T", "_", "I", "N", "S", "T", "A", "L", "L", "_", "T", "R", "A", "N", "S", "L", "A", "T", "I", "O", "N", "S">>
QT_INSTALL_BINS == <<"Q", "T", "_", "I", "N", "S", "T", "A", "L", "L", "_", "B", "I", "N", "S">>
QT_INSTALL_LIBS == <<"Q", "T", "_", "I", "N", "S", "T", "A", "L", "L", "_", "L", "I", "B", "S">>
QT_INSTALL_QML == <<"Q", "T", "_", "I", "N", "S", "T", "A", "L", "L", "_", "Q", "M", "L">>
Dir_Plugins == <<"/", "o", "p", "t", "/", "q", "t", "/", "p", "l", "u", "g", "i", "n", "s">>
Dir_Libexecs == <<"/", "o", "p", "t", "/", "q", "t", "/", "l", "i", "b", "e", "x", "e", "c">>
Dir_Data == <<"/", "o", "p", "t", "/", "q", "t">>
Dir_Translations == <<"/", "o", "p", "t", "/", "q", "t", "/", "t", "r", "a", "n", "s", "l", "a", "t", "i", "o", "n", "s">>
Dir_Bins == <<"/", "o", "p", "t", "/", "q", "t", "/", "b", "i", "n">>
Dir_Libs == <<"/", "o", "p", "t", "/", "q", "t", "/", "l", "i", "b">>
Dir_Qml == <<"/", "o", "p", "t", "/", "q", "t", "/", "q", "m", "l">>
Str_malformed_line == <<"m", "a", "l", "f", "o", "r", "m", "e", "d", "_", "l", "i", "n", "e">>
Path_QmakeQt5 == <<"/", "u", "s", "r", "/", "b", "i", "n", "/", "q", "m", "a", "k", "e", "-", "q", "t", "5">>
Path_Qmake == <<"/", "u", "s", "r", "/", "b", "i", "n", "/", "q", "m", "a", "k", "e">>

-----------------------------------------------------------------------------
(* Bounds *)

\* longest build-tool output text enumerated by SpecQuery
MaxLen == 5
\* most -p flags on one command line
MaxFlags == 2

-----------------------------------------------------------------------------
(* Generic helpers *)

Min(a, b) == IF a <= b THEN a ELSE b
Max(a, b) == IF a >= b THEN a ELSE b
Take(s, n) == SubSeq(s, 1, Min(n, Len(s)))
Rep(c, n) == [i \in 1..n |-> c]
Range(s) == {s[i] : i \in 1..Len(s)}
SeqsUpTo(S, n) == UNION {[1..k -> S] : k \in 0..n}

RECURSIVE JoinWith(_, _)
JoinWith(parts, sep) ==
    IF parts = <<>> THEN <<>>
    ELSE IF Len(parts) = 1 THEN parts[1]
    ELSE parts[1] \o <<sep>> \o JoinWith(Tail(parts), sep)

EmptyMap == [k \in {} |-> <<>>]
MapPut(rv, k, v) == [x \in (DOMAIN rv) \cup {k} |-> IF x = k THEN v ELSE rv[x]]

-----------------------------------------------------------------------------
(* C strings *)

\* s.c_str()[i-1]: the byte at position i, the terminating NUL past the end
CharAt(s, i) == IF i <= Len(s) THEN s[i] ELSE NUL

\* the text a C API sees behind s.c_str(): s up to its first NUL byte
c_str(s) ==
    IF \E i \in 1..Len(s) : s[i] = NUL
    THEN SubSeq(s, 1, (CHOOSE i \in 1..Len(s) :
                          s[i] = NUL /\ \A j \in 1..(i-1) : s[j] # NUL) - 1)
    ELSE s

\* strncmp(a, b, n) == 0, compared byte by byte from position i
RECURSIVE strncmpEq(_, _, _, _)
strncmpEq(a, b, n, i) ==
    IF i > n THEN TRUE
    ELSE IF CharAt(a, i) # CharAt(b, i) THEN FALSE
    ELSE IF CharAt(a, i) = NUL THEN TRUE
    ELSE strncmpEq(a, b, n, i + 1)

strncmp0(a, b, n) == strncmpEq(a, b, n, 1)
strcmp0(a, b) == strncmpEq(a, b, Max(Len(a), Len(b)) + 1, 1)

-----------------------------------------------------------------------------
(* boost::filesystem as used by the matcher *)

is_regular_file(p, fs) == c_str(p) \in fs

LastSlash(p) ==
    IF \E i \in 1..Len(p) : p[i] = "/"
    THEN CHOOSE i \in 1..Len(p) : p[i] = "/" /\ \A j \in (i+1)..Len(p) : p[j] # "/"
    ELSE 0

\* bf::path(p).filename().string()
filename(p) ==
    IF LastSlash(p) = 0 THEN p
    ELSE IF LastSlash(p) < Len(p) THEN SubSeq(p, LastSlash(p) + 1, Len(p))
    ELSE IF Len(p) = 1 THEN <<"/">>
    ELSE <<".">>

-----------------------------------------------------------------------------
(* The module catalog (qt-modules.h) *)

QtModules == <<
    [name |-> Str_sqlite,        libraryFilePrefix |-> Str_libQt5Sql],
    [name |-> Str_webengine,     libraryFilePrefix |-> Str_libQt5WebEngine],
    [name |-> Str_webenginecore, libraryFilePrefix |-> Str_libQt5WebEngineCore],
    [name |-> Str_widgets,       libraryFilePrefix |-> Str_libQt5Widgets] >>

ModuleIds == 1..Len(QtModules)
IdOf(name) == CHOOSE m \in ModuleIds : QtModules[m].name = name

-----------------------------------------------------------------------------
(* main.cpp:105-126, the matchesQtModule lambda *)

\* the lambda without the trailing dot of line 111
matchesQtModule_NoDot(libraryName, module, fs) ==
    LET name == IF is_regular_file(libraryName, fs)
                THEN filename(libraryName) ELSE libraryName
        libraryPrefix == module.libraryFilePrefix
    IN \/ strncmp0(name, libraryPrefix, Len(libraryPrefix))
       \/ strcmp0(name, module.name)

matchesQtModule(libraryName, module, fs) ==
    LET name == IF is_regular_file(libraryName, fs)
                THEN filename(libraryName) ELSE libraryName
        libraryPrefix == module.libraryFilePrefix \o <<".">>
    IN \/ strncmp0(name, libraryPrefix, Len(libraryPrefix))
       \/ strcmp0(name, module.name)

-----------------------------------------------------------------------------
(* util.cpp:61-73, the stringSplit lambda: repeated std::getline(ss, part,  *)
(* delim).  A part ends at a delimiter or at the end of the text; getline   *)
(* fails, ending the loop, when it meets the end without reading a byte.    *)

\* the positions of delim in str, and the k-th of them (0 for k = 0)
delimsOf(str, delim) == {i \in 1..Len(str) : str[i] = delim}
delimAt(str, delim, k) ==
    IF k = 0 THEN 0
    ELSE CHOOSE i \in delimsOf(str, delim) :
            Cardinality({j \in delimsOf(str, delim) : j <= i}) = k

stringSplit(str, delim) ==
    LET n == Cardinality(delimsOf(str, delim))
        closed == [k \in 1..n |-> SubSeq(str, delimAt(str, delim, k - 1) + 1,
                                              delimAt(str, delim, k) - 1)]
        rest == SubSeq(str, delimAt(str, delim, n) + 1, Len(str))
    IN IF rest = <<>> THEN closed ELSE Append(closed, rest)

(* util.cpp:4-20, check_command: both buffers are cut at their first NUL *)
check_command(retcode, outBuf) ==
    [success |-> retcode = 0, retcode |-> retcode, stdoutOutput |-> c_str(outBuf)]

(* util.cpp:75-82, the loop over the lines of the output *)
RECURSIVE parseLines(_, _, _)
parseLines(lines, i, rv) ==
    IF i > Len(lines) THEN rv
    ELSE LET parts == stringSplit(lines[i], ":")
         IN parseLines(lines, i + 1,
                       IF Len(parts) # 2 THEN rv
                       ELSE MapPut(rv, parts[1], parts[2]))

\* the loop accepting every line with at least two parts
queryQmake_AtLeastTwo(qmakeCall) ==
    LET RECURSIVE loop(_, _, _)
        loop(lines, i, rv) ==
            IF i > Len(lines) THEN rv
            ELSE LET parts == stringSplit(lines[i], ":")
                 IN loop(lines, i + 1,
                         IF Len(parts) < 2 THEN rv
                         ELSE MapPut(rv, parts[1], parts[2]))
    IN IF ~qmakeCall.success THEN EmptyMap
       ELSE loop(stringSplit(qmakeCall.stdoutOutput, LF), 1, EmptyMap)

(* util.cpp:44-85 *)
queryQmake(qmakeCall) ==
    IF ~qmakeCall.success THEN EmptyMap
    ELSE parseLines(stringSplit(qmakeCall.stdoutOutput, LF), 1, EmptyMap)

-----------------------------------------------------------------------------
(* main.cpp:128-150, module resolution *)

\* std::copy_if over the catalog with std::find_if over a token vector
copyIfMatches(pluginsList, fs) ==
    SelectSeq([m \in ModuleIds |-> m],
              LAMBDA m : \E i \in 1..Len(pluginsList) :
                            matchesQtModule(pluginsList[i], QtModules[m], fs))

\* lines 128-134: the same over the std::set of library names
findQtModules(libs, fs) ==
    SelectSeq([m \in ModuleIds |-> m],
              LAMBDA m : \E l \in libs : matchesQtModule(l, QtModules[m], fs))

\* ';' as the count argument of std::string(const char*, size_t), line 139
SemicolonCode == 59

\* linuxdeploy::util::split(str) with its default delimiter
split(str) == stringSplit(str, " ")

\* lines 136-139.  std::string(data, ';') copies 59 bytes starting at the
\* value: the value, its terminating NUL and whatever lies behind it.
splitEnv(data, tail) ==
    IF ~data.set THEN <<>>
    ELSE split(Take(data.value \o <<NUL>> \o tail, SemicolonCode))

\* the second source filtered against the first
collectExtraQtModules_Dedup(extraPlugins, fromEnv, fs) ==
    LET first == copyIfMatches(extraPlugins, fs)
    IN first \o SelectSeq(copyIfMatches(fromEnv, fs),
                          LAMBDA m : m \notin Range(first))

\* lines 141-150: one copy_if per token source, -p flags first
collectExtraQtModules(extraPlugins, fromEnv, fs) ==
    copyIfMatches(extraPlugins, fs) \o copyIfMatches(fromEnv, fs)

\* extra modules ahead of the found ones
concatModules_ExtraFirst(found, extra) == extra \o found

\* lines 216-218
concatModules(found, extra) == found \o extra

-----------------------------------------------------------------------------
(* util.cpp:22-42 and 87-105 *)

RECURSIVE stripNewlines(_)
stripNewlines(path) ==
    IF path # <<>> /\ path[Len(path)] = LF
    THEN stripNewlines(SubSeq(path, 1, Len(path) - 1))
    ELSE path

which(proc) == IF proc.retcode # 0 THEN <<>> ELSE stripNewlines(c_str(proc.out))

findQmake(qmakeEnv, whichQt5, whichPlain) ==
    IF qmakeEnv.set THEN qmakeEnv.value
    ELSE IF which(whichQt5) # <<>> THEN which(whichQt5)
    ELSE which(whichPlain)

-----------------------------------------------------------------------------
(* Inputs of one run *)

Unset == [set |-> FALSE, value |-> <<>>]
SetTo(v) == [set |-> TRUE, value |-> v]

CliTokens == {Str_sqlite, Path_Widgets}
CommandLines ==
    {[parseError |-> TRUE, pluginType |-> FALSE, pluginApiVersion |-> FALSE,
      appDir |-> "absent", extraPlugins |-> <<>>]}
    \cup [parseError : {FALSE}, pluginType : {TRUE}, pluginApiVersion : BOOLEAN,
          appDir : {"absent", "directory"}, extraPlugins : {<<>>}]
    \cup [parseError : {FALSE}, pluginType : {FALSE}, pluginApiVersion : {TRUE},
          appDir : {"absent", "missing"}, extraPlugins : {<<>>}]
    \cup [parseError : {FALSE}, pluginType : {FALSE}, pluginApiVersion : {FALSE},
          appDir : {"absent", "missing", "file"}, extraPlugins : {<<>>}]
    \cup [parseError : {FALSE}, pluginType : {FALSE}, pluginApiVersion : {FALSE},
          appDir : {"directory"}, extraPlugins : SeqsUpTo(CliTokens, MaxFlags)]

FileSystems == {{}, {Path_Widgets}}
LibrarySets == {{}, {Lib_Widgets, Lib_Core}, {Lib_WebEngine, Lib_Sql}}
EnvValues == {Unset, SetTo(Str_sqlite), SetTo(Env_Semicolon), SetTo(Env_Space)}
\* what may follow the value in memory: the next variable of the environment
\* block, then zero bytes
EnvTails == {Tail_NextVar \o Rep(NUL, SemicolonCode),
             Tail_Spaced \o Rep(NUL, SemicolonCode)}

WhichResults == {[retcode |-> 1, out |-> <<>>]}
WhichQt5Results == WhichResults \cup {[retcode |-> 0, out |-> Path_QmakeQt5 \o <<LF>>]}
WhichPlainResults == WhichResults \cup {[retcode |-> 0, out |-> Path_Qmake \o <<LF>>]}
QmakeEnvValues == {Unset, SetTo(<<>>), SetTo(Path_Qmake)}

RequiredKeys == {QT_INSTALL_PLUGINS, QT_INSTALL_LIBEXECS, QT_INSTALL_DATA,
                 QT_INSTALL_TRANSLATIONS, QT_INSTALL_BINS, QT_INSTALL_LIBS,
                 QT_INSTALL_QML}

Line(k, v) == k \o <<":">> \o v
FullQueryText ==
    JoinWith(<<Line(QT_INSTALL_PLUGINS, Dir_Plugins), Line(QT_INSTALL_LIBEXECS, Dir_Libexecs),
               Line(QT_INSTALL_DATA, Dir_Data), Line(QT_INSTALL_TRANSLATIONS, Dir_Translations),
               Line(QT_INSTALL_BINS, Dir_Bins), Line(QT_INSTALL_LIBS, Dir_Libs),
               Line(QT_INSTALL_QML, Dir_Qml)>>, LF) \o <<LF>>
ExampleQueryText ==
    JoinWith(<<Line(QT_INSTALL_LIBS, Dir_Libs), Str_malformed_line,
               Line(QT_INSTALL_BINS, Dir_Bins)>>, LF)
QmakeRuns == {[retcode |-> 0, out |-> FullQueryText],
              [retcode |-> 0, out |-> ExampleQueryText],
              [retcode |-> 0, out |-> <<>>],
              [retcode |-> 1, out |-> <<>>]}

-----------------------------------------------------------------------------
(* PluginsDeployerFactory::getDeployers: the deployer kinds of a module *)

getDeployers(name) ==
    IF name = Str_sqlite THEN <<"plugins">>
    ELSE IF name = Str_webenginecore THEN <<"plugins", "libexec">>
    ELSE IF name = Str_widgets THEN <<"plugins">>
    ELSE <<>>

-----------------------------------------------------------------------------
(* One run of main(), main.cpp:29-265 *)

NoCalls == [which |-> 0, findQmake |-> 0, queryQmake |-> 0, setenv |-> 0,
            factory |-> 0, deployTranslations |-> 0,
            executeDeferredOperations |-> 0, createQtConf |-> 0,
            createAppRunHook |-> 0]
NoStages == [deployTranslations |-> "none", executeDeferredOperations |-> "none",
             createQtConf |-> "none", createAppRunHook |-> "none"]
NoArgs == [parseError |-> FALSE, pluginType |-> FALSE, pluginApiVersion |-> FALSE,
           appDir |-> "absent", extraPlugins |-> <<>>]

MainAt(p) ==
    /\ pc = p
    /\ exitCode = -1
    /\ args = NoArgs
    /\ files = {}
    /\ libraryNames = {}
    /\ envData = Unset
    /\ envTail = <<>>
    /\ extraPluginsFromEnv = <<>>
    /\ foundQtModules = <<>>
    /\ extraQtModules = <<>>
    /\ qmakePath = <<>>
    /\ qmakeVars = EmptyMap
    /\ qtPaths = EmptyMap
    /\ qtModulesToDeploy = <<>>
    /\ modIdx = 0
    /\ deployers = <<>>
    /\ depIdx = 0
    /\ errors = <<>>
    /\ deploying = <<>>
    /\ executed = <<>>
    /\ calls = NoCalls
    /\ stageOk = NoStages

MatchIdle == mCandidate = <<>> /\ mModule = 1 /\ mFiles = {} /\ mResult = "idle"
QueryIdle == qRetcode = 0 /\ qOutBuf = <<>> /\ qResult = [done |-> FALSE, rv |-> EmptyMap]

Init == MainAt("parse") /\ MatchIdle /\ QueryIdle

\* return code; from main
Return(code) == pc' = "done" /\ exitCode' = code
LogError(msg) == errors' = Append(errors, msg)
Called(stage) == calls' = [calls EXCEPT ![stage] = @ + 1]

\* lines 45-50
ParseCLI ==
    /\ pc = "parse"
    /\ \E cl \in CommandLines :
          /\ args' = cl
          /\ IF cl.parseError
             THEN Return(1)
             ELSE pc' = "flags" /\ UNCHANGED exitCode
    /\ UNCHANGED <<files, libraryNames, envData, envTail, extraPluginsFromEnv,
                   foundQtModules, extraQtModules, qmakePath, qmakeVars, qtPaths,
                   qtModulesToDeploy, modIdx, deployers, depIdx, errors,
                   deploying, executed, calls, stageOk>>
    /\ UNCHANGED <<matchVars, queryVars>>

\* lines 52-66
CheckFlags ==
    /\ pc = "flags"
    /\ IF args.pluginType THEN Return(0) /\ UNCHANGED errors
       ELSE IF args.pluginApiVersion THEN Return(0) /\ UNCHANGED errors
       ELSE IF args.appDir = "absent"
            THEN LogError("--appdir parameter required") /\ Return(1)
            ELSE pc' = "appdir" /\ UNCHANGED <<exitCode, errors>>
    /\ UNCHANGED <<args, files, libraryNames, envData, envTail, extraPluginsFromEnv,
                   foundQtModules, extraQtModules, qmakePath, qmakeVars, qtPaths,
                   qtModulesToDeploy, modIdx, deployers, depIdx,
                   deploying, executed, calls, stageOk>>
    /\ UNCHANGED <<matchVars, queryVars>>

\* the check of lines 68-71 left out
CheckAppDir_NoCheck ==
    /\ pc = "appdir"
    /\ pc' = "scan"
    /\ UNCHANGED <<exitCode, errors>>
    /\ UNCHANGED <<args, files, libraryNames, envData, envTail, extraPluginsFromEnv,
                   foundQtModules, extraQtModules, qmakePath, qmakeVars, qtPaths,
                   qtModulesToDeploy, modIdx, deployers, depIdx,
                   deploying, executed, calls, stageOk>>
    /\ UNCHANGED <<matchVars, queryVars>>

\* lines 68-71
CheckAppDir ==
    /\ pc = "appdir"
    /\ IF args.appDir # "directory"
       THEN LogError("No such directory:") /\ Return(1)
       ELSE pc' = "scan" /\ UNCHANGED <<exitCode, errors>>
    /\ UNCHANGED <<args, files, libraryNames, envData, envTail, extraPluginsFromEnv,
                   foundQtModules, extraQtModules, qmakePath, qmakeVars, qtPaths,
                   qtModulesToDeploy, modIdx, deployers, depIdx,
                   deploying, executed, calls, stageOk>>
    /\ UNCHANGED <<matchVars, queryVars>>

\* lines 73-92: the file names of the bundle's libraries and of their
\* dependencies, as the AppDir and the ELF tracer report them
ScanLibraries ==
    /\ pc = "scan"
    /\ \E libs \in LibrarySets : libraryNames' = libs
    /\ pc' = "resolve"
    /\ UNCHANGED <<exitCode, args, files, envData, envTail, extraPluginsFromEnv,
                   foundQtModules, extraQtModules, qmakePath, qmakeVars, qtPaths,
                   qtModulesToDeploy, modIdx, deployers, depIdx, errors,
                   deploying, executed, calls, stageOk>>
    /\ UNCHANGED <<matchVars, queryVars>>

\* lines 102-171
ResolveModules ==
    /\ pc = "resolve"
    /\ \E fs \in FileSystems, data \in EnvValues, tail \in EnvTails :
          LET fromEnv == splitEnv(data, tail)
              found == findQtModules(libraryNames, fs)
              extra == collectExtraQtModules(args.extraPlugins, fromEnv, fs)
          IN /\ files' = fs
             /\ envData' = data
             /\ envTail' = IF data.set THEN tail ELSE <<>>
             /\ extraPluginsFromEnv' = fromEnv
             /\ foundQtModules' = found
             /\ extraQtModules' = extra
             /\ IF found = <<>> /\ extra = <<>>
                THEN LogError("Could not find Qt modules to deploy") /\ Return(1)
                ELSE pc' = "findQmake" /\ UNCHANGED <<exitCode, errors>>
    /\ UNCHANGED <<args, libraryNames, qmakePath, qmakeVars, qtPaths,
                   qtModulesToDeploy, modIdx, deployers, depIdx,
                   deploying, executed, calls, stageOk>>
    /\ UNCHANGED <<matchVars, queryVars>>

\* lines 173-185
FindQmake ==
    /\ pc = "findQmake"
    /\ \E qmakeEnv \in QmakeEnvValues, w5 \in WhichQt5Results,
          w \in WhichPlainResults, exists \in BOOLEAN :
          LET path == findQmake(qmakeEnv, w5, w)
              whichCalls == IF qmakeEnv.set THEN 0
                            ELSE IF which(w5) # <<>> THEN 1 ELSE 2
          IN /\ qmakePath' = path
             /\ calls' = [calls EXCEPT !.findQmake = @ + 1, !.which = @ + whichCalls]
             /\ IF path = <<>>
                THEN LogError("Could not find qmake, please install or provide path using $QMAKE")
                     /\ Return(1)
                ELSE IF ~exists
                THEN LogError("No such file or directory:") /\ Return(1)
                ELSE pc' = "queryQmake" /\ UNCHANGED <<exitCode, errors>>
    /\ UNCHANGED <<args, files, libraryNames, envData, envTail, extraPluginsFromEnv,
                   foundQtModules, extraQtModules, qmakeVars, qtPaths,
                   qtModulesToDeploy, modIdx, deployers, depIdx,
                   deploying, executed, stageOk>>
    /\ UNCHANGED <<matchVars, queryVars>>

\* lines 187-192, with the error queryQmake logs itself (util.cpp:49-52)
QueryQmake ==
    /\ pc = "queryQmake"
    /\ \E run \in QmakeRuns :
          LET qmakeCall == check_command(run.retcode, run.out)
              rv == queryQmake(qmakeCall)
              callLog == IF qmakeCall.success THEN <<>> ELSE <<"Call to qmake failed:">>
          IN /\ qmakeVars' = rv
             /\ Called("queryQmake")
             /\ IF rv = EmptyMap
                THEN /\ errors' = errors \o callLog \o
                                  <<"Failed to query Qt paths using qmake -query">>
                     /\ Return(1)
                ELSE /\ errors' = errors \o callLog
                     /\ pc' = "setup"
                     /\ UNCHANGED exitCode
    /\ UNCHANGED <<args, files, libraryNames, envData, envTail, extraPluginsFromEnv,
                   foundQtModules, extraQtModules, qmakePath, qtPaths,
                   qtModulesToDeploy, modIdx, deployers, depIdx,
                   deploying, executed, stageOk>>
    /\ UNCHANGED <<matchVars, queryVars>>

\* std::map::operator[]: the value, or a default-constructed one (the entry
\* it inserts for an absent key is never read again)
Lookup(map, key) == IF key \in DOMAIN map THEN map[key] ELSE <<>>

\* lines 194-227: the path locals, the two setenv calls, the module list
\* and the deployer factory
SetUpDeployment ==
    /\ pc = "setup"
    /\ qtPaths' = [k \in RequiredKeys |-> Lookup(qmakeVars, k)]
    /\ calls' = [calls EXCEPT !.setenv = @ + 2, !.factory = @ + 1]
    /\ qtModulesToDeploy' = concatModules(foundQtModules, extraQtModules)
    /\ modIdx' = 1
    /\ pc' = "module"
    /\ UNCHANGED <<exitCode, args, files, libraryNames, envData, envTail,
                   extraPluginsFromEnv, foundQtModules, extraQtModules, qmakePath,
                   qmakeVars, deployers, depIdx, errors, deploying, executed, stageOk>>
    /\ UNCHANGED <<matchVars, queryVars>>

\* lines 229-232: the head of the outer loop
NextModule ==
    /\ pc = "module"
    /\ IF modIdx > Len(qtModulesToDeploy)
       THEN /\ pc' = "translations"
            /\ UNCHANGED <<deploying, deployers, depIdx>>
       ELSE /\ deploying' = Append(deploying, qtModulesToDeploy[modIdx])
            /\ deployers' = getDeployers(QtModules[qtModulesToDeploy[modIdx]].name)
            /\ depIdx' = 1
            /\ pc' = "deployer"
    /\ UNCHANGED <<exitCode, args, files, libraryNames, envData, envTail,
                   extraPluginsFromEnv, foundQtModules, extraQtModules, qmakePath,
                   qmakeVars, qtPaths, qtModulesToDeploy, modIdx, errors,
                   executed, calls, stageOk>>
    /\ UNCHANGED <<matchVars, queryVars>>

\* the inner loop going on after a failed deploy()
RunDeployer_IgnoreFailure ==
    /\ pc = "deployer"
    /\ IF depIdx > Len(deployers)
       THEN /\ modIdx' = modIdx + 1
            /\ pc' = "module"
            /\ UNCHANGED <<exitCode, executed, depIdx>>
       ELSE \E ok \in BOOLEAN :
               /\ executed' = Append(executed, [pos |-> modIdx,
                                                module |-> qtModulesToDeploy[modIdx],
                                                deployer |-> depIdx, ok |-> ok])
               /\ depIdx' = depIdx + 1
               /\ UNCHANGED <<pc, exitCode, modIdx>>
    /\ UNCHANGED <<args, files, libraryNames, envData, envTail,
                   extraPluginsFromEnv, foundQtModules, extraQtModules, qmakePath,
                   qmakeVars, qtPaths, qtModulesToDeploy, deployers, errors,
                   deploying, calls, stageOk>>
    /\ UNCHANGED <<matchVars, queryVars>>

\* lines 234-236: one deploy() call, or the end of the inner loop
RunDeployer ==
    /\ pc = "deployer"
    /\ IF depIdx > Len(deployers)
       THEN /\ modIdx' = modIdx + 1
            /\ pc' = "module"
            /\ UNCHANGED <<exitCode, executed, depIdx>>
       ELSE \E ok \in BOOLEAN :
               /\ executed' = Append(executed, [pos |-> modIdx,
                                                module |-> qtModulesToDeploy[modIdx],
                                                deployer |-> depIdx, ok |-> ok])
               /\ IF ok
                  THEN depIdx' = depIdx + 1 /\ UNCHANGED <<pc, exitCode, modIdx>>
                  ELSE Return(1) /\ UNCHANGED <<depIdx, modIdx>>
    /\ UNCHANGED <<args, files, libraryNames, envData, envTail,
                   extraPluginsFromEnv, foundQtModules, extraQtModules, qmakePath,
                   qmakeVars, qtPaths, qtModulesToDeploy, deployers, errors,
                   deploying, calls, stageOk>>
    /\ UNCHANGED <<matchVars, queryVars>>

\* one late stage of lines 239-261: call it, log and return 1 when it fails
LateStage(at, stage, msg, next) ==
    /\ pc = at
    /\ Called(stage)
    /\ \E ok \in BOOLEAN :
          /\ stageOk' = [stageOk EXCEPT ![stage] = IF ok THEN "ok" ELSE "failed"]
          /\ IF ok
             THEN pc' = next /\ UNCHANGED <<exitCode, errors>>
             ELSE LogError(msg) /\ Return(1)
    /\ UNCHANGED <<args, files, libraryNames, envData, envTail,
                   extraPluginsFromEnv, foundQtModules, extraQtModules, qmakePath,
                   qmakeVars, qtPaths, qtModulesToDeploy, modIdx, deployers, depIdx,
                   deploying, executed>>
    /\ UNCHANGED <<matchVars, queryVars>>

\* the flush moved ahead of the translations
DeployTranslations_FlushFirst ==
    LateStage("translations", "executeDeferredOperations",
              "Failed to execute deferred operations", "deferred")

\* lines 239-243
DeployTranslations ==
    LateStage("translations", "deployTranslations",
              "Failed to deploy translations", "deferred")

\* lines 245-249
ExecuteDeferredOperations ==
    LateStage("deferred", "executeDeferredOperations",
              "Failed to execute deferred operations", "qtconf")

\* lines 251-255
CreateQtConf ==
    LateStage("qtconf", "createQtConf",
              "Failed to create qt.conf in AppDir", "hook")

\* lines 257-261
CreateAppRunHook ==
    LateStage("hook", "createAppRunHook",
              "Failed to create AppRun hook in AppDir", "finish")

\* lines 263-264
Finish ==
    /\ pc = "finish"
    /\ Return(0)
    /\ UNCHANGED <<args, files, libraryNames, envData, envTail,
                   extraPluginsFromEnv, foundQtModules, extraQtModules, qmakePath,
                   qmakeVars, qtPaths, qtModulesToDeploy, modIdx, deployers, depIdx,
                   errors, deploying, executed, calls, stageOk>>
    /\ UNCHANGED <<matchVars, queryVars>>

Next ==
    \/ ParseCLI
    \/ CheckFlags
    \/ CheckAppDir
    \/ ScanLibraries
    \/ ResolveModules
    \/ FindQmake
    \/ QueryQmake
    \/ SetUpDeployment
    \/ NextModule
    \/ RunDeployer
    \/ DeployTranslations
    \/ ExecuteDeferredOperations
    \/ CreateQtConf
    \/ CreateAppRunHook
    \/ Finish

Spec == Init /\ [][Next]_vars

-----------------------------------------------------------------------------
(* SpecMatch: the matcher applied to one candidate, module and file system *)

MatchCandidates ==
    {<<>>, Str_sqlite, Str_webengine, Str_webenginecore, Str_widgets,
     Lib_Sql, Lib_WebEngine, Lib_WebEngineCore, Lib_Widgets, Lib_Core,
     Path_Widgets, Path_NamedWidgets, Str_NoDot, Str_PrefixDot, Str_widgetsX,
     Str_libQt5}
MatchFileSystems == SUBSET {Path_Widgets, Path_NamedWidgets, Lib_WebEngineCore}

InitMatch ==
    /\ MainAt("idle")
    /\ QueryIdle
    /\ mCandidate \in MatchCandidates
    /\ mModule \in ModuleIds
    /\ mFiles \in MatchFileSystems
    /\ mResult = "none"

ApplyMatch ==
    /\ mResult = "none"
    /\ mResult' = IF matchesQtModule(mCandidate, QtModules[mModule], mFiles)
                  THEN "true" ELSE "false"
    /\ UNCHANGED <<mCandidate, mModule, mFiles, mainVars, queryVars>>

NextMatch == ApplyMatch
SpecMatch == InitMatch /\ [][NextMatch]_vars

-----------------------------------------------------------------------------
(* SpecQuery: queryQmake over every output text of at most MaxLen bytes *)

QueryAlphabet == {"k", "v", ":", LF, NUL}
QueryTexts == SeqsUpTo(QueryAlphabet, MaxLen) \cup {ExampleQueryText, FullQueryText}

InitQuery ==
    /\ MainAt("idle")
    /\ MatchIdle
    /\ qRetcode \in {0, 1}
    /\ qOutBuf \in QueryTexts
    /\ qResult = [done |-> FALSE, rv |-> EmptyMap]

ApplyQuery ==
    /\ ~qResult.done
    /\ qResult' = [done |-> TRUE, rv |-> queryQmake(check_command(qRetcode, qOutBuf))]
    /\ UNCHANGED <<qRetcode, qOutBuf, mainVars, matchVars>>

NextQuery == ApplyQuery
SpecQuery == InitQuery /\ [][NextQuery]_vars

-----------------------------------------------------------------------------
(* Vocabulary of the properties *)

StartsWith(s, p) == Len(s) >= Len(p) /\ SubSeq(s, 1, Len(p)) = p
Basename(L) ==
    LET slashes == {i \in 1..Len(L) : L[i] = "/"}
        last == IF slashes = {} THEN 0
                ELSE CHOOSE i \in slashes : \A j \in slashes : j <= i
    IN SubSeq(L, last + 1, Len(L))
NameOrFileOf(L, M) ==
    \/ StartsWith(L, M.libraryFilePrefix \o <<".">>)
    \/ L = M.name

Count(s, m) == Cardinality({i \in 1..Len(s) : s[i] = m})
StrictlyIncreasing(s) == \A i, j \in 1..Len(s) : i < j => s[i] < s[j]
NonDecreasing(s) == \A i, j \in 1..Len(s) : i < j => s[i] <= s[j]
MatchedBy(tokens) ==
    {m \in ModuleIds : \E t \in tokens : matchesQtModule(t, QtModules[m], files)}

ShortCircuit == args.pluginType \/ args.pluginApiVersion
\* the run got past module resolution (lines 128-150)
Resolved ==
    \/ pc \in {"findQmake", "queryQmake", "setup", "module", "deployer",
               "translations", "deferred", "qtconf", "hook", "finish"}
    \/ pc = "done" /\ ~args.parseError /\ ~ShortCircuit /\ args.appDir = "directory"
LateCalls == calls.deployTranslations + calls.executeDeferredOperations
             + calls.createQtConf + calls.createAppRunHook
NoBuildToolWork ==
    /\ calls.findQmake = 0 /\ calls.which = 0 /\ calls.queryQmake = 0
    /\ calls.setenv = 0 /\ calls.factory = 0
    /\ executed = <<>> /\ deploying = <<>> /\ LateCalls = 0
AllDeployersSucceeded ==
    /\ \A i \in 1..Len(executed) : executed[i].ok
    /\ deploying = qtModulesToDeploy
    /\ \A p \in 1..Len(qtModulesToDeploy) :
          \A d \in 1..Len(getDeployers(QtModules[qtModulesToDeploy[p]].name)) :
             \E i \in 1..Len(executed) :
                executed[i].pos = p /\ executed[i].deployer = d

-----------------------------------------------------------------------------
(* C1 *)

\* C1 (fail-fast): a deploy() call that reported failure is the last call
\* made, no later module was started, neither the translation deployment nor
\* the deferred-operation flush nor the config generation ran, and the run
\* has ended with exit status 1.
C1_FailFast ==
    \A i \in 1..Len(executed) :
       ~executed[i].ok =>
          /\ i = Len(executed)
          /\ Len(deploying) = executed[i].pos
          /\ LateCalls = 0
          /\ pc = "done"
          /\ exitCode = 1

\* a run whose second module failed with a third module still to come
C1_Witness ==
    /\ Len(qtModulesToDeploy) >= 3
    /\ executed # <<>>
    /\ ~executed[Len(executed)].ok
    /\ executed[Len(executed)].pos = 2
    /\ exitCode = 1

-----------------------------------------------------------------------------
(* C2 *)

FlushDiscipline ==
    /\ calls.executeDeferredOperations <= 1
    /\ calls.executeDeferredOperations >= 1 =>
          /\ AllDeployersSucceeded
          /\ calls.deployTranslations = 1
          /\ stageOk.deployTranslations = "ok"
    /\ calls.createQtConf + calls.createAppRunHook >= 1 =>
          stageOk.executeDeferredOperations = "ok"

\* C2 as stated: the flush runs at most once, exactly once in EVERY run that
\* exits 0, only after all deployers and the translations succeeded, and
\* qt.conf and the hook come only after a successful flush.
C2_Original ==
    /\ FlushDiscipline
    /\ pc = "done" /\ exitCode = 0 => calls.executeDeferredOperations = 1

\* C2 (amended): as above, where the runs that exit 0 and flush exactly once
\* are those not answered by --plugin-type or --plugin-api-version; those two
\* exit 0 without deploying or flushing anything.
C2_FlushOnce ==
    /\ FlushDiscipline
    /\ pc = "done" /\ exitCode = 0 /\ ~ShortCircuit =>
          calls.executeDeferredOperations = 1
    /\ pc = "done" /\ exitCode = 0 /\ ShortCircuit =>
          calls.executeDeferredOperations = 0

\* a successful run that executed several deployers and flushed once
C2_Witness ==
    /\ pc = "done" /\ exitCode = 0
    /\ Len(executed) >= 2
    /\ calls.executeDeferredOperations = 1
    /\ calls.createAppRunHook = 1

-----------------------------------------------------------------------------
(* C3, checked under SpecMatch *)

-----------------------------------------------------------------------------
(* C4 *)

EnvTokenUniverse == {Str_sqlite, Str_webenginecore, Str_widgets}

\* C4: with no -p flags, EXTRA_QT_PLUGINS = "t1;...;tn" gives the extra list
\* that the flags -p t1 ... -p tn give with the variable unset.
C4_EnvLikeFlags ==
    Resolved /\ envData.set /\ args.extraPlugins = <<>> =>
       \A ts \in SeqsUpTo(EnvTokenUniverse, 2) :
          JoinWith(ts, ";") = envData.value =>
             extraQtModules = collectExtraQtModules(ts, <<>>, files)

-----------------------------------------------------------------------------
(* C5 *)

\* C5: a query result that is empty or lacks a required key makes the run
\* fail with status 1 before the deployer factory is built or any deployer
\* runs.
C5_FailsBeforeDeploying ==
    calls.queryQmake >= 1 /\ (\E k \in RequiredKeys : k \notin DOMAIN qmakeVars) =>
       /\ calls.factory = 0
       /\ executed = <<>>
       /\ pc = "done" => exitCode = 1

-----------------------------------------------------------------------------
(* C6 *)

\* C6: every run that ended with a non-zero status on a fatal condition has
\* logged an error message.
C6_ErrorLogged ==
    pc = "done" /\ exitCode # 0 /\ ~args.parseError => errors # <<>>

-----------------------------------------------------------------------------
(* C7 *)

\* C7 as stated: a missing or non-directory --appdir, or two empty module
\* lists, always ends the run with status 1 and without build-tool work.
C7_Original ==
    /\ pc = "done" /\ args.appDir # "directory" =>
          exitCode = 1 /\ NoBuildToolWork
    /\ Resolved /\ pc = "done" /\ foundQtModules = <<>> /\ extraQtModules = <<>> =>
          exitCode = 1 /\ NoBuildToolWork

\* C7 (amended): in every run not answered by --plugin-type or
\* --plugin-api-version (which exit 0 whatever --appdir is), a missing or
\* non-directory --appdir, or two empty module lists after resolution, ends
\* the run with status 1; in every run, those conditions mean that no
\* build-tool lookup or query, environment rewrite or deployer action occurs.
C7_ConfigErrorsStopEarly ==
    /\ args.appDir # "directory" => NoBuildToolWork
    /\ pc = "done" /\ ~ShortCircuit /\ args.appDir # "directory" => exitCode = 1
    /\ Resolved /\ pc = "done" /\ foundQtModules = <<>> /\ extraQtModules = <<>> =>
          exitCode = 1 /\ NoBuildToolWork

\* a run given an --appdir that is not a directory
C7_Witness ==
    /\ pc = "done"
    /\ ~args.parseError /\ ~ShortCircuit
    /\ args.appDir = "missing"
    /\ exitCode = 1

-----------------------------------------------------------------------------
(* C8 *)

LoopInListOrder ==
    /\ calls.factory >= 1 =>
          /\ Len(qtModulesToDeploy) = Len(foundQtModules) + Len(extraQtModules)
          /\ SubSeq(qtModulesToDeploy, 1, Len(foundQtModules)) = foundQtModules
          /\ SubSeq(qtModulesToDeploy, Len(foundQtModules) + 1,
                    Len(qtModulesToDeploy)) = extraQtModules
    /\ Len(deploying) <= Len(qtModulesToDeploy)
    /\ deploying = SubSeq(qtModulesToDeploy, 1, Len(deploying))
    /\ \A i \in 1..Len(executed) : executed[i].pos <= Len(deploying)
    /\ \A i, j \in 1..Len(executed) :
          i < j => \/ executed[i].pos < executed[j].pos
                   \/ /\ executed[i].pos = executed[j].pos
                      /\ executed[i].deployer < executed[j].deployer
    /\ LateCalls >= 1 => deploying = qtModulesToDeploy

\* C8 as stated: found modules before extra modules, each of the two lists
\* in catalog order, and the loop visits the list front to back.
C8_Original ==
    /\ LoopInListOrder
    /\ Resolved => NonDecreasing(foundQtModules) /\ NonDecreasing(extraQtModules)

\* C8 (amended): found modules before extra modules; the found list is in
\* catalog order; the extra list is the modules matched by the -p tokens in
\* catalog order followed by the modules matched by the tokens taken from
\* EXTRA_QT_PLUGINS in catalog order; the loop visits the concatenated list
\* front to back without reordering or skipping.
C8_DeployOrder ==
    /\ LoopInListOrder
    /\ Resolved =>
          /\ StrictlyIncreasing(foundQtModules)
          /\ Range(foundQtModules) = MatchedBy(libraryNames)
          /\ LET byFlags == MatchedBy(Range(args.extraPlugins))
                 byEnv == MatchedBy(Range(extraPluginsFromEnv))
             IN \E k \in 0..Len(extraQtModules) :
                   LET fromFlags == SubSeq(extraQtModules, 1, k)
                       fromEnv == SubSeq(extraQtModules, k + 1, Len(extraQtModules))
                   IN /\ StrictlyIncreasing(fromFlags)
                      /\ Range(fromFlags) = byFlags
                      /\ StrictlyIncreasing(fromEnv)
                      /\ Range(fromEnv) = byEnv

\* every module of a list with found and extra entries has been visited
C8_Witness ==
    /\ pc = "translations"
    /\ foundQtModules # <<>>
    /\ Len(extraQtModules) >= 2
    /\ deploying = qtModulesToDeploy

-----------------------------------------------------------------------------
(* C9 *)

ByLibraries == MatchedBy(libraryNames)
ByFlags == MatchedBy(Range(args.extraPlugins))
ByEnv == MatchedBy(Range(extraPluginsFromEnv))
\* an exit with status 1 after resolution has a failed stage behind it
FailureHasCause ==
    Resolved /\ pc = "done" /\ exitCode = 1 =>
       \/ errors # <<>>
       \/ executed # <<>> /\ ~executed[Len(executed)].ok

\* C9 as stated: a module matched by the library closure and by the explicit
\* tokens is once in found, once in extra and twice in the deployed list.
C9_Original ==
    Resolved =>
       LET both == ByLibraries \cap (ByFlags \cup ByEnv)
       IN \A m \in both :
             /\ Count(foundQtModules, m) = 1
             /\ Count(extraQtModules, m) = 1
             /\ calls.factory >= 1 => Count(qtModulesToDeploy, m) = 2

\* C9 (amended): such a module is exactly once in found, and in extra once for
\* each of the two token sources (the -p flags, the tokens taken from
\* EXTRA_QT_PLUGINS) that matches it, so once or twice; the deployed list
\* holds it two or three times; nothing is deduplicated and the repetition is
\* no cause of failure.
C9_UnionNotDedup ==
    /\ FailureHasCause
    /\ Resolved =>
          LET byFlags == ByFlags
              byEnv == ByEnv
              both == ByLibraries \cap (byFlags \cup byEnv)
              sources(m) == (IF m \in byFlags THEN 1 ELSE 0)
                            + (IF m \in byEnv THEN 1 ELSE 0)
          IN \A m \in both :
                /\ Count(foundQtModules, m) = 1
                /\ Count(extraQtModules, m) = sources(m)
                /\ calls.factory >= 1 =>
                      Count(qtModulesToDeploy, m) = 1 + sources(m)

\* a successful run with one module found, flagged and named in the variable
C9_Witness ==
    /\ pc = "done" /\ exitCode = 0
    /\ \E m \in ModuleIds :
          /\ Count(foundQtModules, m) = 1
          /\ Count(extraQtModules, m) = 2
          /\ Count(qtModulesToDeploy, m) = 3

-----------------------------------------------------------------------------
(* C10, checked under SpecQuery *)

QueryText == check_command(qRetcode, qOutBuf).stdoutOutput
\* the lines of t as pairs <<first, last>> of positions
LineSpans(t) ==
    {sp \in (1..(Len(t) + 1)) \X (0..Len(t)) :
        /\ sp[2] >= sp[1] - 1
        /\ sp[1] = 1 \/ t[sp[1] - 1] = LF
        /\ sp[2] = Len(t) \/ t[sp[2] + 1] = LF
        /\ \A k \in sp[1]..sp[2] : t[k] # LF}
ColonsIn(t, sp) == {k \in sp[1]..sp[2] : t[k] = ":"}
FirstColon(t, sp) == CHOOSE k \in ColonsIn(t, sp) : \A c \in ColonsIn(t, sp) : k <= c
KeyOf(t, sp) == SubSeq(t, sp[1], FirstColon(t, sp) - 1)
\* the line has one colon
OneColon(t, sp) == Cardinality(ColonsIn(t, sp)) = 1
\* the line has one colon and a value behind it, or two colons the second of
\* which ends the line
TwoParts(t, sp) ==
    \/ Cardinality(ColonsIn(t, sp)) = 1 /\ sp[2] \notin ColonsIn(t, sp)
    \/ Cardinality(ColonsIn(t, sp)) = 2 /\ sp[2] \in ColonsIn(t, sp)
ValueOf(t, sp) ==
    SubSeq(t, FirstColon(t, sp) + 1,
           IF Cardinality(ColonsIn(t, sp)) = 2 THEN sp[2] - 1 ELSE sp[2])
ExampleMap ==
    [k \in {QT_INSTALL_LIBS, QT_INSTALL_BINS} |->
        IF k = QT_INSTALL_LIBS THEN Dir_Libs ELSE Dir_Bins]

\* C10 as stated: the map holds the pair of every line with exactly one
\* colon and nothing else; lines with no colon or several colons are dropped.
C10_Original ==
    qResult.done /\ qRetcode = 0 =>
       LET t == QueryText
           kept == {sp \in LineSpans(t) : OneColon(t, sp)}
       IN /\ DOMAIN qResult.rv = {KeyOf(t, sp) : sp \in kept}
          /\ \A k \in DOMAIN qResult.rv :
                \E sp \in kept : KeyOf(t, sp) = k /\ qResult.rv[k] = SubSeq(t, FirstColon(t, sp) + 1, sp[2])

\* C10 (amended): the map holds, for each key, the pair of the last line
\* with that key among the lines the code's split breaks into exactly two
\* parts: a line with one colon and a non-empty value, or a line with two
\* colons the second of which ends the line (getline yields no empty last
\* part).  Every other line is dropped silently.  The three example lines
\* parse to exactly the two example pairs, and a failed call gives the empty
\* map.
C10_QueryParsing ==
    qResult.done =>
       LET t == QueryText
           kept == {sp \in LineSpans(t) : TwoParts(t, sp)}
       IN /\ qRetcode # 0 => qResult.rv = EmptyMap
          /\ qRetcode = 0 =>
                /\ DOMAIN qResult.rv = {KeyOf(t, sp) : sp \in kept}
                /\ \A k \in DOMAIN qResult.rv :
                      \E sp \in kept :
                         /\ KeyOf(t, sp) = k
                         /\ qResult.rv[k] = ValueOf(t, sp)
                         /\ \A later \in kept :
                               KeyOf(t, later) = k => later[1] <= sp[1]
          /\ qRetcode = 0 /\ qOutBuf = ExampleQueryText => qResult.rv = ExampleMap

\* the example text parsed, its malformed line dropped
C10_Witness ==
    /\ qResult.done
    /\ qRetcode = 0
    /\ qOutBuf = ExampleQueryText
    /\ DOMAIN qResult.rv = {QT_INSTALL_LIBS, QT_INSTALL_BINS}

=============================================================================
